---- MODULE Spec2Model ----
(***************************************************************************)
(* The parameterised SQL query builder of nz-mvr-explorer:                 *)
(*   src/src/validation.py  validate_columns, is_numeric                   *)
(*   src/src/filter.py      build_filter_condition                         *)
(*   src/src/query.py       build_query                                    *)
(*                                                                         *)
(* Text is a sequence of lexemes (one-token strings): a keyword, a         *)
(* punctuation mark, a digit, a column name.  An f-string is the           *)
(* concatenation of its literal lexemes and of the formatted values, so a  *)
(* value that is interpolated into SQL text shows up in it, lexeme by      *)
(* lexeme.  White space between the lexemes of the templates is left out.  *)
(* A filter value is a sequence of lexemes over quotes, semicolons,        *)
(* comment marks, commas, white space, letters and digits.                 *)
(***************************************************************************)
EXTENDS Integers, Sequences, FiniteSets, TLC

\* ------------------------------------------------------------------ bounds

\* longest filter list of a request
MaxFilters == 2
\* longest projection list of a request
MaxCols == 2
\* longest requested / allowed list handed to validate_columns on its own
MaxNames == 2
\* longest filter value, in lexemes, handed to build_filter_condition on its own
MaxValLen == 4
\* longest params list build_filter_condition is handed on its own
MaxPrior == 1

\* ------------------------------------------------------- values and text

\* Python's None where a column name (a string) is expected
None == "<py:None>"
\* Python's None as the value of a filter that takes no value
NoVal == <<"<py:None>">>

\* truthiness of an Optional[str]: `if group_by_col:`
Truthy(x) == x # None /\ x # ""

\* str() of an Optional[str] inside an f-string, as lexemes
Fmt(x) == IF x = None THEN <<"None">> ELSE IF x = "" THEN <<>> ELSE <<x>>

Range(s) == {s[k] : k \in 1..Len(s)}

Digit(d) ==
  CASE d = 0 -> "0" [] d = 1 -> "1" [] d = 2 -> "2" [] d = 3 -> "3"
    [] d = 4 -> "4" [] d = 5 -> "5" [] d = 6 -> "6" [] d = 7 -> "7"
    [] d = 8 -> "8" [] d = 9 -> "9"

Digits == {Digit(d) : d \in 0..9}

DigitVal(c) == CHOOSE d \in 0..9 : Digit(d) = c

\* str() of a non-negative int inside an f-string: its decimal digits
RECURSIVE DecStr(_)
DecStr(n) == IF n < 10 THEN <<Digit(n)>> ELSE DecStr(n \div 10) \o <<Digit(n % 10)>>

\* the white space str.strip() removes
WS == {" ", "\n"}

RECURSIVE LStrip(_)
LStrip(s) == IF s # <<>> /\ Head(s) \in WS THEN LStrip(Tail(s)) ELSE s

RECURSIVE RStrip(_)
RStrip(s) ==
  IF s # <<>> /\ s[Len(s)] \in WS THEN RStrip(SubSeq(s, 1, Len(s) - 1)) ELSE s

\* str.strip()
strip(s) == RStrip(LStrip(s))

RECURSIVE SplitAcc(_, _, _)
SplitAcc(s, sep, cur) ==
  IF s = <<>> THEN <<cur>>
  ELSE IF Head(s) = sep THEN <<cur>> \o SplitAcc(Tail(s), sep, <<>>)
  ELSE SplitAcc(Tail(s), sep, Append(cur, Head(s)))

\* str.split(sep): "".split(",") is [""]
split(s, sep) == SplitAcc(s, sep, <<>>)

\* sep.join(parts)
RECURSIVE join(_, _)
join(sep, parts) ==
  IF parts = <<>> THEN <<>>
  ELSE IF Len(parts) = 1 THEN parts[1]
  ELSE parts[1] \o sep \o join(sep, Tail(parts))

\* ------------------------------------------------------------ validation

\* mutant: any() in place of all()
validate_columns_any(cols, allowed) ==
  \E k \in 1..Len(cols) : \E j \in 1..Len(allowed) : allowed[j] = cols[k]

\* all(col in allowed for col in cols)
validate_columns(cols, allowed) ==
  \A k \in 1..Len(cols) : \E j \in 1..Len(allowed) : allowed[j] = cols[k]

\* mutant: value.isdigit() in place of trying float(value)
is_numeric_isdigit(value) ==
  /\ value # NoVal
  /\ value # <<>>
  /\ \A k \in 1..Len(value) : value[k] \in Digits

\* float(value) succeeds: optional white space around digits with at most one
\* point and at least one digit (the lexemes of a value hold no sign, exponent,
\* underscore, or the letters of inf and nan)
is_numeric(value) ==
  LET body == strip(value)
      dots == {k \in 1..Len(body) : body[k] = "."}
      digs == {k \in 1..Len(body) : body[k] \in Digits}
  IN  /\ value # NoVal
      /\ \A k \in 1..Len(body) : body[k] \in Digits \cup {"."}
      /\ Cardinality(dots) <= 1
      /\ digs # {}

RECURSIVE DigitsToNat(_)
DigitsToNat(s) ==
  IF s = <<>> THEN 0 ELSE DigitsToNat(SubSeq(s, 1, Len(s) - 1)) * 10 + DigitVal(s[Len(s)])

RECURSIVE DropTrailingZeros(_)
DropTrailingZeros(s) ==
  IF s # <<>> /\ s[Len(s)] = "0" THEN DropTrailingZeros(SubSeq(s, 1, Len(s) - 1)) ELSE s

\* float(value) of a numeric value: <<m, e>> stands for m / 10^e, e minimal
float(value) ==
  LET body == strip(value)
      parts == split(body, ".")
      whole == parts[1]
      frac == IF Len(parts) > 1 THEN DropTrailingZeros(parts[2]) ELSE <<>>
  IN  <<DigitsToNat(whole \o frac), Len(frac)>>

\* a bound parameter: a str or a float
StrParam(s) == [t |-> "str", s |-> s, num |-> <<0, 0>>]
FloatParam(x) == [t |-> "float", s |-> <<>>, num |-> x]

\* ------------------------------------------------------ filter compiler

\* `return None`: no fragment (falsy, like the empty string)
NoCond == <<>>

\* f'"{col}"'
Quoted(col) == <<"\"">> \o Fmt(col) \o <<"\"">>

\* mutant: the placeholder numbered from zero
PlaceholderZeroBased(params) == <<"$">> \o DecStr(Len(params) - 1)

\* f"${len(params)}", evaluated after the append
Placeholder(params) == <<"$">> \o DecStr(Len(params))

\* f'CAST("{col}" AS VARCHAR)'
CastVarchar(col) == <<"CAST", "(">> \o Quoted(col) \o <<"AS", "VARCHAR", ")">>

\* op == "is null" / op == "not null"
NullCondition(col, op, params) ==
  [cond |-> Quoted(col) \o (IF op = "is null" THEN <<"IS", "NULL">>
                                             ELSE <<"IS", "NOT", "NULL">>),
   params |-> params]

\* op == "contains"
ContainsCondition(col, val, params) ==
  LET p == Append(params, StrParam(<<"%">> \o val \o <<"%">>))
  IN  [cond |-> CastVarchar(col) \o <<"ILIKE">> \o Placeholder(p), params |-> p]

\* mutant: the value written into the text between single quotes
EqualsConditionInline(col, val, params) ==
  [cond |-> CastVarchar(col) \o <<"=", "'">> \o val \o <<"'">>, params |-> params]

\* op == "equals"
EqualsCondition(col, val, params) ==
  LET p == Append(params, StrParam(val))
  IN  [cond |-> CastVarchar(col) \o <<"=">> \o Placeholder(p), params |-> p]

RECURSIVE Flatten(_)
Flatten(ss) == IF ss = <<>> THEN <<>> ELSE Head(ss) \o Flatten(Tail(ss))

NonBlank(v) == strip(v) # <<>>
NonEmpty(v) == v # <<>>

\* mutant: `if v` in place of `if v.strip()`
ParseValuesNoStripTest(val) ==
  LET lines == split(val, "\n")
      Segs(line) == LET kept == SelectSeq(split(line, ","), NonEmpty)
                    IN  [k \in 1..Len(kept) |-> strip(kept[k])]
  IN  Flatten([k \in 1..Len(lines) |-> Segs(lines[k])])

\* for line in val.split("\n"):
\*     values.extend([v.strip() for v in line.split(",") if v.strip()])
ParseValues(val) ==
  LET lines == split(val, "\n")
      Segs(line) == LET kept == SelectSeq(split(line, ","), NonBlank)
                    IN  [k \in 1..Len(kept) |-> strip(kept[k])]
  IN  Flatten([k \in 1..Len(lines) |-> Segs(lines[k])])

\* mutant: no `if not values: return None`
IsOneOfConditionEmptyIn(col, val, params) ==
  LET values == ParseValues(val)
      n == Len(values)
      p == params \o [k \in 1..n |-> StrParam(values[k])]
      placeholders == [k \in 1..n |-> Placeholder(SubSeq(p, 1, Len(params) + k))]
  IN  [cond |-> CastVarchar(col) \o <<"IN", "(">>
                  \o join(<<",">>, placeholders) \o <<")">>,
       params |-> p]

\* op == "is one of"
IsOneOfCondition(col, val, params) ==
  LET values == ParseValues(val)
      n == Len(values)
      p == params \o [k \in 1..n |-> StrParam(values[k])]
      \* the placeholder written right after the k-th append
      placeholders == [k \in 1..n |-> Placeholder(SubSeq(p, 1, Len(params) + k))]
  IN  IF values = <<>>
      THEN [cond |-> NoCond, params |-> params]
      ELSE [cond |-> CastVarchar(col) \o <<"IN", "(">>
                       \o join(<<",">>, placeholders) \o <<")">>,
            params |-> p]

\* op in [">", "<", ">=", "<="]
ComparisonCondition(col, op, val, params) ==
  IF is_numeric(val)
  THEN LET p == Append(params, FloatParam(float(val)))
       IN  [cond |-> <<"TRY_CAST", "(">> \o Quoted(col) \o <<"AS", "DOUBLE", ")">>
                       \o <<op>> \o Placeholder(p),
            params |-> p]
  ELSE LET p == Append(params, StrParam(val))
       IN  [cond |-> CastVarchar(col) \o <<op>> \o Placeholder(p), params |-> p]

\* the fragment returned and the params list after the call
build_filter_condition(col, op, val, params) ==
  CASE op \in {"is null", "not null"} -> NullCondition(col, op, params)
    [] op = "contains" -> ContainsCondition(col, val, params)
    [] op = "equals" -> EqualsCondition(col, val, params)
    [] op = "is one of" -> IsOneOfCondition(col, val, params)
    [] op \in {">", "<", ">=", "<="} -> ComparisonCondition(col, op, val, params)
    [] OTHER -> [cond |-> NoCond, params |-> params]

\* ------------------------------------------------------- query assembler

\* the target table's name, inlined as it is
DB_TABLE == "<DB_TABLE>"

InvalidColumnError == "Invalid column name detected"
NoColumnsError == "No columns selected for raw mode"
NoSorting == "(no sorting)"
Grouped == "Grouped (summary)"
Raw == "Raw (individual records)"

\* mutant: the filters' columns are not collected
ColumnsToValidateNoFilters(g, cc, sel, sc, fs) ==
  (IF Truthy(g) THEN <<g>> ELSE <<>>)
    \o (IF Truthy(cc) /\ cc # "*" THEN <<cc>> ELSE <<>>)
    \o sel
    \o (IF Truthy(sc) /\ sc # NoSorting THEN <<sc>> ELSE <<>>)

\* columns_to_validate, as collected before the call of validate_columns
ColumnsToValidate(g, cc, sel, sc, fs) ==
  (IF Truthy(g) THEN <<g>> ELSE <<>>)
    \o (IF Truthy(cc) /\ cc # "*" THEN <<cc>> ELSE <<>>)
    \o sel
    \o (IF Truthy(sc) /\ sc # NoSorting THEN <<sc>> ELSE <<>>)
    \o [k \in 1..Len(fs) |-> fs[k][1]]

\* where_clause: "" or "WHERE " + " AND ".join(conditions)
WhereClause(conds) ==
  IF conds = <<>> THEN <<>> ELSE <<"WHERE">> \o join(<<"AND">>, conds)

\* count_expr: COUNT(*) in both branches
CountExpr(cc) == IF cc = "*" THEN <<"COUNT", "(", "*", ")">> ELSE <<"COUNT", "(", "*", ")">>

\* mutant: the group key selected bare
GroupedQueryBareKey(g, cc, where, lim) ==
  <<"SELECT">> \o Quoted(g) \o <<",">>
    \o CountExpr(cc) \o <<"as", "count">>
    \o <<"FROM", DB_TABLE>> \o where
    \o <<"GROUP", "BY">> \o Quoted(g)
    \o <<"ORDER", "BY", "count", "DESC">>
    \o <<"LIMIT">> \o DecStr(lim)

\* the grouped-mode f-string
GroupedQuery(g, cc, where, lim) ==
  <<"SELECT">>
    \o <<"COALESCE", "(">> \o CastVarchar(g) \o <<",", "'", "(", "null", ")", "'", ")">>
    \o <<"as">> \o Quoted(g) \o <<",">>
    \o CountExpr(cc) \o <<"as", "count">>
    \o <<"FROM", DB_TABLE>> \o where
    \o <<"GROUP", "BY">> \o Quoted(g)
    \o <<"ORDER", "BY", "count", "DESC">>
    \o <<"LIMIT">> \o DecStr(lim)

\* order_clause of raw mode
OrderClause(sc, so) ==
  IF Truthy(sc) /\ sc # NoSorting
  THEN <<"ORDER", "BY">> \o Quoted(sc) \o (IF so = "Ascending" THEN <<"ASC">> ELSE <<"DESC">>)
  ELSE <<>>

\* the raw-mode f-string
RawQuery(sel, sc, so, where, lim) ==
  <<"SELECT">> \o join(<<",">>, [k \in 1..Len(sel) |-> Quoted(sel[k])])
    \o <<"FROM", DB_TABLE>> \o where
    \o OrderClause(sc, so)
    \o <<"LIMIT">> \o DecStr(lim)

\* mutant: an empty projection list is let through
NoColumnsSelectedNever(sel) == FALSE

\* `not selected_columns`
NoColumnsSelected(sel) == sel = <<>>

\* ----------------------------------------------------------------- state

VARIABLES
  query_mode,          \* build_query's arguments
  group_by_col,
  count_col,
  selected_columns,
  sort_col,
  sort_order,
  filters,
  limit,
  available_columns,
  columns_to_validate, \* build_query's locals
  params,
  conditions,
  condition,           \* what build_filter_condition returned last, NoCond before
  next_filter,         \* the filter the WHERE loop compiles next (1-based)
  valid,               \* what validate_columns returned
  query,               \* the SQL text returned, <<>> while there is none
  error,               \* the message of the ValueError raised, None while there is none
  pc                   \* where the call is

args == <<query_mode, group_by_col, count_col, selected_columns, sort_col,
          sort_order, filters, limit, available_columns>>

vars == <<query_mode, group_by_col, count_col, selected_columns, sort_col,
          sort_order, filters, limit, available_columns, columns_to_validate,
          params, conditions, condition, next_filter, valid, query, error, pc>>

\* ---------------------------------------------------------------- inputs

SeqsUpTo(S, n) == UNION {[1..m -> S] : m \in 0..n}

Columns == {"A", "B"}
Schemas == {<<"A">>, <<"A", "B">>}
Modes == {Grouped, Raw}
Limits == {10, 100}

\* filter values: an injection attempt, a plain word, a lone double quote, a
\* number, a list that is empty after parsing, a list of three segments
Inj == <<"'", ";", "--">>
Plain == <<"x">>
DQuote == <<"\"">>
Num == <<"1", ".", "5">>
Blank == <<" ", ",", "\n">>
Multi == <<"x", "\n", "y", ",", " ", "x">>

Comparisons == {">", "<", ">=", "<="}
Ops == {"is null", "not null", "contains", "equals", "is one of", "starts with"}
         \cup Comparisons

ValuesFor(op) ==
  CASE op \in {"is null", "not null"} -> {NoVal}
    [] op \in {"contains", "equals"} -> {Inj, Plain, DQuote}
    [] op = "is one of" -> {Inj, Blank, Multi}
    [] op \in Comparisons -> {Num, Inj}
    [] OTHER -> {Plain}

FiltersOn(cols) ==
  UNION {{<<c, op, v>> : v \in ValuesFor(op)} : <<c, op>> \in cols \X Ops}

\* requests that vary the filter list
FilterRequests ==
  [mode : Modes, g : {None, "A"}, cc : {"*"}, sel : {<<>>, <<"A">>},
   sc : {NoSorting}, so : {"Ascending"},
   fs : SeqsUpTo(FiltersOn({"A"}), MaxFilters),
   lim : {10}, schema : {<<"A", "B">>}]

\* requests that vary everything else
ShapeRequests ==
  [mode : Modes, g : {None, ""} \cup Columns, cc : {None, "*", "B"},
   sel : SeqsUpTo(Columns, MaxCols),
   sc : {None, NoSorting, "B"}, so : {"Ascending", "Descending"},
   fs : {<<>>, <<<<"A", "equals", Inj>>>>, <<<<"B", "contains", Plain>>>>,
         <<<<"B", "is null", NoVal>>>>, <<<<"A", "is one of", Blank>>>>},
   lim : Limits, schema : Schemas]

Requests == FilterRequests \cup ShapeRequests

\* ----------------------------------------------------------- build_query

Init ==
  \E r \in Requests :
    /\ query_mode = r.mode
    /\ group_by_col = r.g
    /\ count_col = r.cc
    /\ selected_columns = r.sel
    /\ sort_col = r.sc
    /\ sort_order = r.so
    /\ filters = r.fs
    /\ limit = r.lim
    /\ available_columns = r.schema
    /\ columns_to_validate = <<>>
    /\ params = <<>>
    /\ conditions = <<>>
    /\ condition = NoCond
    /\ next_filter = 1
    /\ valid = FALSE
    /\ query = <<>>
    /\ error = None
    /\ pc = "validate"

\* params = [], the columns collected, validate_columns called, and the raise
Validate ==
  /\ pc = "validate"
  /\ LET cols == ColumnsToValidate(group_by_col, count_col, selected_columns,
                                   sort_col, filters)
         ok == validate_columns(cols, available_columns)
     IN  /\ columns_to_validate' = cols
         /\ valid' = ok
         /\ params' = <<>>
         /\ IF ok
            THEN pc' = "where" /\ error' = error
            ELSE pc' = "error" /\ error' = InvalidColumnError
  /\ UNCHANGED <<args, conditions, condition, next_filter, query>>

\* one turn of `for col, op, val in filters`
CompileFilter ==
  /\ pc = "where"
  /\ next_filter <= Len(filters)
  /\ LET f == filters[next_filter]
         r == build_filter_condition(f[1], f[2], f[3], params)
     IN  /\ params' = r.params
         /\ condition' = r.cond
         /\ conditions' = IF r.cond # NoCond THEN Append(conditions, r.cond)
                                              ELSE conditions
  /\ next_filter' = next_filter + 1
  /\ UNCHANGED <<args, columns_to_validate, valid, query, error, pc>>

\* the loop is over, query_mode == "Grouped (summary)": the query is returned
AssembleGrouped ==
  /\ pc = "where"
  /\ next_filter > Len(filters)
  /\ query_mode = Grouped
  /\ query' = GroupedQuery(group_by_col, count_col, WhereClause(conditions), limit)
  /\ pc' = "done"
  /\ UNCHANGED <<args, columns_to_validate, params, conditions, condition,
                 next_filter, valid, error>>

\* the loop is over, raw mode: the raise, or the query is returned
AssembleRaw ==
  /\ pc = "where"
  /\ next_filter > Len(filters)
  /\ query_mode # Grouped
  /\ IF NoColumnsSelected(selected_columns)
     THEN /\ pc' = "error"
          /\ error' = NoColumnsError
          /\ query' = query
     ELSE /\ pc' = "done"
          /\ error' = error
          /\ query' = RawQuery(selected_columns, sort_col, sort_order,
                               WhereClause(conditions), limit)
  /\ UNCHANGED <<args, columns_to_validate, params, conditions, condition,
                 next_filter, valid>>

Next == Validate \/ CompileFilter \/ AssembleGrouped \/ AssembleRaw

Spec == Init /\ [][Next]_vars

\* ------------------------------------------- validate_columns on its own

Names == {"A", "a", "B"}

InitValidate ==
  /\ columns_to_validate \in SeqsUpTo(Names, MaxNames)
  /\ available_columns \in SeqsUpTo(Names, MaxNames)
  /\ query_mode = Raw
  /\ group_by_col = None
  /\ count_col = None
  /\ selected_columns = <<>>
  /\ sort_col = None
  /\ sort_order = None
  /\ filters = <<>>
  /\ limit = 10
  /\ params = <<>>
  /\ conditions = <<>>
  /\ condition = NoCond
  /\ next_filter = 1
  /\ valid = FALSE
  /\ query = <<>>
  /\ error = None
  /\ pc = "call"

\* validate_columns(cols, allowed) called and returned
CallValidateColumns ==
  /\ pc = "call"
  /\ valid' = validate_columns(columns_to_validate, available_columns)
  /\ pc' = "returned"
  /\ UNCHANGED <<args, columns_to_validate, params, conditions, condition,
                 next_filter, query, error>>

NextValidate == CallValidateColumns

SpecValidate == InitValidate /\ [][NextValidate]_vars

\* ------------------------------------- build_filter_condition on its own

\* the example of a three-segment list: FORD, then TOYOTA and HONDA on a line
FordToyotaHonda == <<"FORD", "\n", "TOYOTA", ",", " ", "HONDA">>
\* the examples of a comparison value: a number, and a word
Hundred == <<"1", "0", "0">>
Abc == <<"ABC">>

ListValues == SeqsUpTo({"x", "y", ",", "\n", " "}, MaxValLen) \cup {FordToyotaHonda, Multi, Inj}
ComparisonValues == SeqsUpTo({"1", "0", ".", " ", "x"}, MaxValLen) \cup {Hundred, Abc, Num, Inj}

CallValuesFor(op) ==
  CASE op = "is one of" -> ListValues
    [] op \in Comparisons -> ComparisonValues
    [] OTHER -> ValuesFor(op)

\* the params lists of the caller: the values of earlier filters
PriorParams == SeqsUpTo({StrParam(<<"q">>)}, MaxPrior)

InitFilter ==
  /\ \E op \in Ops : \E v \in CallValuesFor(op) : filters = <<<<"A", op, v>>>>
  /\ params \in PriorParams
  /\ query_mode = Raw
  /\ group_by_col = None
  /\ count_col = None
  /\ selected_columns = <<>>
  /\ sort_col = None
  /\ sort_order = None
  /\ limit = 10
  /\ available_columns = <<"A">>
  /\ columns_to_validate = <<>>
  /\ conditions = <<>>
  /\ condition = NoCond
  /\ next_filter = 1
  /\ valid = FALSE
  /\ query = <<>>
  /\ error = None
  /\ pc = "call_filter"

\* build_filter_condition(col, op, val, params) called and returned
CallFilter ==
  /\ pc = "call_filter"
  /\ LET f == filters[1]
         r == build_filter_condition(f[1], f[2], f[3], params)
     IN  /\ params' = r.params
         /\ condition' = r.cond
  /\ pc' = "filter_returned"
  /\ UNCHANGED <<args, columns_to_validate, conditions, next_filter, valid,
                 query, error>>

NextFilter == CallFilter

SpecFilter == InitFilter /\ [][NextFilter]_vars

\* ---------------------------------------------------- reading SQL text

\* p occurs in t as a contiguous run of lexemes
Substring(p, t) ==
  \E k \in 0..(Len(t) - Len(p)) : SubSeq(t, k + 1, k + Len(p)) = p

RECURSIVE DigitRun(_)
DigitRun(t) ==
  IF t # <<>> /\ Head(t) \in Digits THEN <<Head(t)>> \o DigitRun(Tail(t)) ELSE <<>>

\* the numbers of the placeholders of t, left to right ($ without digits reads 0)
RECURSIVE PlaceholderNumbers(_)
PlaceholderNumbers(t) ==
  IF t = <<>> THEN <<>>
  ELSE IF Head(t) = "$"
  THEN LET run == DigitRun(Tail(t))
       IN  <<DigitsToNat(run)>>
             \o PlaceholderNumbers(SubSeq(t, Len(run) + 2, Len(t)))
  ELSE PlaceholderNumbers(Tail(t))

RECURSIVE UpToQuote(_)
UpToQuote(t) ==
  IF t = <<>> \/ Head(t) = "\"" THEN <<>> ELSE <<Head(t)>> \o UpToQuote(Tail(t))

\* the double-quoted identifiers of t, each as the lexemes between its quotes
RECURSIVE Identifiers(_)
Identifiers(t) ==
  IF t = <<>> THEN {}
  ELSE IF Head(t) = "\""
  THEN LET name == UpToQuote(Tail(t))
       IN  {name} \cup Identifiers(SubSeq(t, Len(name) + 3, Len(t)))
  ELSE Identifiers(Tail(t))

\* the columns of the schema snapshot, as identifiers
SchemaNames == {<<available_columns[k]>> : k \in 1..Len(available_columns)}

\* the columns a request refers to: the group-by column when there is one, the
\* count column unless absent or the wildcard, the projection, the sort column
\* unless absent or the sentinel, and every filter's column
ReferencedColumns ==
  (IF Truthy(group_by_col) THEN {group_by_col} ELSE {})
    \cup (IF Truthy(count_col) /\ count_col # "*" THEN {count_col} ELSE {})
    \cup Range(selected_columns)
    \cup (IF Truthy(sort_col) /\ sort_col # NoSorting THEN {sort_col} ELSE {})
    \cup {filters[k][1] : k \in 1..Len(filters)}

AllColumnsKnown == ReferencedColumns \subseteq Range(available_columns)

ValueOps == {"contains", "equals", "is one of"} \cup Comparisons

\* the values a filter is to bind, in order: %value%, the value, the trimmed
\* non-empty segments, the float or the value
ValuesBound(f) ==
  CASE f[2] = "contains" -> <<StrParam(<<"%">> \o f[3] \o <<"%">>)>>
    [] f[2] = "equals" -> <<StrParam(f[3])>>
    [] f[2] = "is one of" ->
         LET segs == ParseValues(f[3]) IN [k \in 1..Len(segs) |-> StrParam(segs[k])]
    [] f[2] \in Comparisons ->
         <<IF is_numeric(f[3]) THEN FloatParam(float(f[3])) ELSE StrParam(f[3])>>
    [] OTHER -> <<>>

OneToN(n) == [k \in 1..n |-> k]

\* ---------------------------------------------------------------- claims

\* C1: in every accepted request the SQL text holds exactly the placeholders
\* $1..$n, once each and in this order, n = len(params), and params is the list
\* of the values the filters bind, filter by filter in request order; this
\* holds after every turn of the WHERE loop for the fragments compiled so far,
\* so each fragment refers to the positions of its own filter's values.
C1_ParameterAlignment ==
  LET compiled == SubSeq(filters, 1, next_filter - 1)
  IN  pc \in {"where", "done"} =>
        /\ params = Flatten([k \in 1..Len(compiled) |-> ValuesBound(compiled[k])])
        /\ PlaceholderNumbers(WhereClause(conditions)) = OneToN(Len(params))
        /\ pc = "done" => PlaceholderNumbers(query) = OneToN(Len(params))

\* C1 witness: a grouped query of two filters, a three-segment list and then an
\* equality, is returned with four parameters
C1_Witness ==
  /\ pc = "done"
  /\ query_mode = Grouped
  /\ Len(filters) = 2
  /\ filters[1] = <<"A", "is one of", Multi>>
  /\ filters[2][2] = "equals"
  /\ Len(params) = 4

\* C2: when a referenced column is not in the schema snapshot, the call ends
\* with the invalid-column error before any filter is compiled: no parameter,
\* no fragment, no SQL text
C2_InvalidColumnFailsFirst ==
  ~AllColumnsKnown =>
    /\ pc \in {"validate", "error"}
    /\ pc = "error" => error = InvalidColumnError
    /\ next_filter = 1
    /\ params = <<>>
    /\ conditions = <<>>
    /\ query = <<>>

\* C2 witness: a raw request whose only unknown column is its filter's fails
C2_Witness ==
  /\ pc = "error"
  /\ error = InvalidColumnError
  /\ query_mode = Raw
  /\ Len(filters) = 1
  /\ filters[1][1] \notin Range(available_columns)
  /\ ReferencedColumns \ {filters[1][1]} \subseteq Range(available_columns)
  /\ selected_columns # <<>>

\* C3 (as claimed): every double-quoted identifier of a returned SQL text is a
\* column of the schema snapshot
C3_IdentifiersInSchema ==
  pc = "done" => Identifiers(query) \subseteq SchemaNames

\* C5 (as claimed): a grouped request without a group-by column is not answered
\* with a query
C5_GroupedNeedsGroupColumn ==
  (query_mode = Grouped /\ ~Truthy(group_by_col)) => pc # "done"

\* C7: a raw request with an empty projection list, its columns all known, is
\* never answered with a query; it ends with the no-columns error
C7_RawNeedsColumns ==
  (query_mode = Raw /\ selected_columns = <<>> /\ AllColumnsKnown) =>
    /\ pc # "done"
    /\ query = <<>>
    /\ pc = "error" => error = NoColumnsError

\* C7 witness: such a request with two filters is rejected after the filters
\* were compiled
C7_Witness ==
  /\ pc = "error"
  /\ error = NoColumnsError
  /\ query_mode = Raw
  /\ selected_columns = <<>>
  /\ Len(filters) = 2
  /\ params # <<>>

\* C8: validate_columns returns true exactly when every requested name is an
\* allowed name, and so true for an empty request
C8_ValidateIsSubset ==
  pc = "returned" =>
    /\ valid <=> (Range(columns_to_validate) \subseteq Range(available_columns))
    /\ columns_to_validate = <<>> => valid

\* C8 witness: an empty request against an empty allowed list validates
C8_Witness ==
  /\ pc = "returned"
  /\ columns_to_validate = <<>>
  /\ available_columns = <<>>
  /\ valid

\* C9 (as claimed): a grouped query orders by count descending and then by the
\* group key
C9_TieBreakByGroupKey ==
  (pc = "done" /\ query_mode = Grouped /\ Truthy(group_by_col)) =>
    Substring(<<"ORDER", "BY", "count", "DESC", ",">> \o Quoted(group_by_col), query)

\* C10 (as claimed): a grouped query selects its group key as the bare quoted
\* identifier and never wraps it in COALESCE
C10_GroupKeyBare ==
  (pc = "done" /\ query_mode = Grouped /\ Truthy(group_by_col)) =>
    /\ "COALESCE" \notin Range(query)
    /\ SubSeq(query, 1, 5) = <<"SELECT">> \o Quoted(group_by_col) \o <<",">>

\* the select item the grouped template writes for group key g
CoalescedKey(g) ==
  <<"COALESCE", "(", "CAST", "(">> \o Quoted(g)
    \o <<"AS", "VARCHAR", ")", ",", "'", "(", "null", ")", "'", ")", "as">> \o Quoted(g)

\* C10 (amended): a grouped query selects COALESCE(CAST("g" AS VARCHAR),
\* '(null)') as "g" for its group key g, first in the select list, and groups
\* by the bare quoted identifier
C10_GroupKeyCoalesced ==
  (pc = "done" /\ query_mode = Grouped) =>
    /\ SubSeq(query, 1, 1 + Len(CoalescedKey(group_by_col)) + 1)
         = <<"SELECT">> \o CoalescedKey(group_by_col) \o <<",">>
    /\ Substring(<<"GROUP", "BY">> \o Quoted(group_by_col) \o <<"ORDER">>, query)

\* C10 witness: a grouped query on column A with a WHERE clause is returned
C10_Witness ==
  /\ pc = "done"
  /\ query_mode = Grouped
  /\ group_by_col = "A"
  /\ conditions # <<>>

\* the WHERE loop over fs as a whole
RECURSIVE CompileAll(_, _, _)
CompileAll(fs, ps, conds) ==
  IF fs = <<>> THEN [params |-> ps, conditions |-> conds]
  ELSE LET r == build_filter_condition(fs[1][1], fs[1][2], fs[1][3], ps)
       IN  CompileAll(Tail(fs), r.params,
                      IF r.cond # NoCond THEN Append(conds, r.cond) ELSE conds)

\* the text this request would get with fs as its filter list
QueryWith(fs) ==
  LET where == WhereClause(CompileAll(fs, <<>>, <<>>).conditions)
  IN  IF query_mode = Grouped
      THEN GroupedQuery(group_by_col, count_col, where, limit)
      ELSE RawQuery(selected_columns, sort_col, sort_order, where, limit)

\* an 'is one of' value that holds only white space, commas and newlines
OnlySeparators(v) == \A k \in 1..Len(v) : v[k] \in {" ", ",", "\n"}

EmptyIsOneOf(f) == f[2] = "is one of" /\ OnlySeparators(f[3])

NotEmptyIsOneOf(f) == ~EmptyIsOneOf(f)

HasEmptyIsOneOf == \E k \in 1..Len(filters) : EmptyIsOneOf(filters[k])

\* C6 (as claimed): a request with an 'is one of' filter whose value list is
\* empty after parsing is not answered with a query (stated for the requests
\* that are well-formed otherwise: raw, or grouped with a group-by column)
C6_EmptyIsOneOfRejected ==
  (HasEmptyIsOneOf /\ (query_mode = Raw \/ Truthy(group_by_col))) => pc # "done"

\* C6 (amended): such a filter is left out and rejects nothing: it binds no
\* parameter and yields no fragment, the request fails only for an unknown
\* column or an empty raw projection, and the query returned is the one of the
\* request without that filter
C6_EmptyIsOneOfDropped ==
  LET compiled == SubSeq(filters, 1, next_filter - 1)
      kept == SelectSeq(compiled, NotEmptyIsOneOf)
      r == CompileAll(kept, <<>>, <<>>)
  IN  HasEmptyIsOneOf =>
        /\ pc \in {"where", "done"} => params = r.params /\ conditions = r.conditions
        /\ pc = "error" =>
             \/ error = InvalidColumnError /\ ~AllColumnsKnown
             \/ error = NoColumnsError /\ query_mode = Raw /\ selected_columns = <<>>
        /\ pc = "done" => query = QueryWith(SelectSeq(filters, NotEmptyIsOneOf))

\* C6 witness: a query is returned for a raw request whose first filter has an
\* empty list and whose second filter makes the WHERE clause
C6_Witness ==
  /\ pc = "done"
  /\ query_mode = Raw
  /\ Len(filters) = 2
  /\ EmptyIsOneOf(filters[1])
  /\ filters[2][2] = "equals"
  /\ Len(conditions) = 1
  /\ Len(params) = 1

\* a value with a quote, a semicolon or a comment mark
HasMetacharacter(v) == \E k \in 1..Len(v) : v[k] \in {"'", "\"", ";", "--"}

\* C4 (as claimed): the SQL text returned never contains, as a substring, the
\* value of a value-taking filter that holds SQL metacharacters (stated for the
\* requests that are well-formed otherwise: raw, or grouped with a group-by
\* column)
C4_ValueNeverInText ==
  (pc = "done" /\ (query_mode = Raw \/ Truthy(group_by_col))) =>
    \A k \in 1..Len(filters) :
      (filters[k][2] \in ValueOps /\ HasMetacharacter(filters[k][3]))
        => ~Substring(filters[k][3], query)

\* a plain value of the same shape: as many 'is one of' segments, numeric or
\* not for a comparison
PlainValue(f) ==
  CASE f[2] = "is one of" ->
         join(<<",">>, [k \in 1..Len(ParseValues(f[3])) |-> <<"x">>])
    [] f[2] \in Comparisons -> IF is_numeric(f[3]) THEN <<"1">> ELSE <<"x">>
    [] f[2] \in {"contains", "equals"} -> <<"x">>
    [] OTHER -> f[3]

PlainFilters == [k \in 1..Len(filters) |-> <<filters[k][1], filters[k][2], PlainValue(filters[k])>>]

\* C4 (amended): no part of the SQL text returned is taken from a filter value:
\* the text is the one of the same request with every value replaced by a plain
\* value of the same shape, and every value is in the parameter list in its
\* %value%, trimmed-segment, float or unchanged form
C4_TextIndependentOfValues ==
  pc = "done" =>
    /\ query = QueryWith(PlainFilters)
    /\ \A k \in 1..Len(filters) :
         Range(ValuesBound(filters[k])) \subseteq Range(params)

\* C4 witness: a raw query is returned for two filters, an injection attempt under
\* `equals` and a lone double quote under `contains`
C4_Witness ==
  /\ pc = "done"
  /\ query_mode = Raw
  /\ Len(filters) = 2
  /\ filters[1] = <<"A", "equals", Inj>>
  /\ filters[2] = <<"A", "contains", DQuote>>
  /\ Substring(DQuote, query)
  /\ ~Substring(Inj, query)

\* ------------------------------------------- claims about the compiler

\* s without the white space at its ends
Trimmed(s) ==
  LET inked == {k \in 1..Len(s) : s[k] \notin {" ", "\n"}}
  IN  IF inked = {} THEN <<>>
      ELSE SubSeq(s, CHOOSE k \in inked : \A j \in inked : k <= j,
                     CHOOSE k \in inked : \A j \in inked : k >= j)

\* v cut at every newline and every comma, left to right
RECURSIVE Pieces(_, _)
Pieces(v, cur) ==
  IF v = <<>> THEN <<cur>>
  ELSE IF Head(v) \in {"\n", ","} THEN <<cur>> \o Pieces(Tail(v), <<>>)
  ELSE Pieces(Tail(v), Append(cur, Head(v)))

\* the non-empty trimmed segments of v, left to right, duplicates kept
Segments(v) ==
  LET pieces == Pieces(v, <<>>)
      trimmed == [k \in 1..Len(pieces) |-> Trimmed(pieces[k])]
  IN  SelectSeq(trimmed, NonEmpty)

\* the text $a, $a+1, ..., $b
PlaceholderList(a, b) ==
  join(<<",">>, [k \in 1..(b - a + 1) |-> <<"$">> \o DecStr(a + k - 1)])

\* C11: for `is one of`, build_filter_condition appends the non-empty trimmed
\* segments of the value (cut at newlines and commas) as one parameter each,
\* left to right with duplicates kept, and returns CAST("col" AS VARCHAR) IN
\* (...) over exactly the placeholders just appended; without such a segment
\* it returns none and leaves params as it was
C11_IsOneOfSegments ==
  [][(pc = "call_filter" /\ filters[1][2] = "is one of") =>
        LET col == filters[1][1]
            segs == Segments(filters[1][3])
            p == Len(params)
            n == Len(segs)
        IN  IF n = 0
            THEN condition' = NoCond /\ params' = params
            ELSE /\ params' = params \o [k \in 1..n |-> StrParam(segs[k])]
                 /\ condition' = <<"CAST", "(", "\"", col, "\"", "AS", "VARCHAR", ")",
                                   "IN", "(">>
                                   \o PlaceholderList(p + 1, p + n) \o <<")">>
    ]_vars

\* C11 witness: FORD, then TOYOTA and HONDA on one line, after one earlier
\* parameter, returned with the three values as parameters 2 to 4
C11_Witness ==
  /\ pc = "filter_returned"
  /\ filters[1] = <<"A", "is one of", FordToyotaHonda>>
  /\ Len(params) = 4
  /\ params[2] = StrParam(<<"FORD">>)
  /\ params[3] = StrParam(<<"TOYOTA">>)
  /\ params[4] = StrParam(<<"HONDA">>)
  /\ PlaceholderNumbers(condition) = <<2, 3, 4>>

IsDigits(s) == \A k \in 1..Len(s) : s[k] \in Digits

\* v reads as a number: digits with at most one point and at least one digit,
\* white space allowed around them
ParsesAsNumber(v) ==
  LET b == Trimmed(v)
  IN  \/ b # <<>> /\ IsDigits(b)
      \/ \E i \in 1..Len(b) :
           /\ b[i] = "."
           /\ Len(b) >= 2
           /\ IsDigits(SubSeq(b, 1, i - 1))
           /\ IsDigits(SubSeq(b, i + 1, Len(b)))

RECURSIVE Pow10(_)
Pow10(e) == IF e = 0 THEN 1 ELSE 10 * Pow10(e - 1)

\* the number a digit string writes, most significant digit first
RECURSIVE NatOf(_)
NatOf(s) ==
  IF s = <<>> THEN 0 ELSE DigitVal(Head(s)) * Pow10(Len(s) - 1) + NatOf(Tail(s))

\* the digits of a numeric v without its point, and how many follow the point
DigitsOf(v) == SelectSeq(Trimmed(v), LAMBDA c : c # ".")
FractionLen(v) ==
  LET b == Trimmed(v)
      dot == {k \in 1..Len(b) : b[k] = "."}
  IN  IF dot = {} THEN 0 ELSE Len(b) - (CHOOSE k \in dot : TRUE)

\* C12: for >, <, >= and <=, build_filter_condition appends exactly one
\* parameter: the float of a value that reads as a number, with the fragment
\* TRY_CAST("col" AS DOUBLE) op $n, and otherwise the value unchanged, with the
\* fragment CAST("col" AS VARCHAR) op $n; op is the requested operator
C12_ComparisonParameter ==
  [][(pc = "call_filter" /\ filters[1][2] \in Comparisons) =>
        LET col == filters[1][1]
            op == filters[1][2]
            v == filters[1][3]
            n == Len(params) + 1
        IN  /\ Len(params') = n
            /\ SubSeq(params', 1, n - 1) = params
            /\ IF ParsesAsNumber(v)
               THEN /\ params'[n].t = "float"
                    /\ params'[n].num[1] * Pow10(FractionLen(v))
                         = NatOf(DigitsOf(v)) * Pow10(params'[n].num[2])
                    /\ condition' = <<"TRY_CAST", "(", "\"", col, "\"", "AS", "DOUBLE",
                                      ")", op, "$">> \o DecStr(n)
               ELSE /\ params'[n] = StrParam(v)
                    /\ condition' = <<"CAST", "(", "\"", col, "\"", "AS", "VARCHAR",
                                      ")", op, "$">> \o DecStr(n)
    ]_vars

\* C12 witness: 100 under > is bound as the float 100.0 and compared by number
C12_Witness ==
  /\ pc = "filter_returned"
  /\ filters[1] = <<"A", ">", Hundred>>
  /\ params = <<FloatParam(<<100, 0>>)>>
  /\ Substring(<<"TRY_CAST", "(", "\"", "A", "\"", "AS", "DOUBLE", ")", ">", "$", "1">>,
               condition)

====
